---- MODULE Spec2Model ----
(***************************************************************************)
(* Model of kano_settings/boot_config.py: the ConfigTransaction state      *)
(* machine (IDLE / LOCKED / WRITABLE), the BootConfig accessor it drives,  *)
(* and the files it works on (the Target Path, the staged temporary files  *)
(* next to it, the lock file under /run/lock).                             *)
(*                                                                         *)
(* Two processes each own one ConfigTransaction on the same Target Path.   *)
(* A file is a record [ex, lines, nl]: whether it exists, its lines, and   *)
(* whether its last line is newline-terminated.  A line is a sequence of   *)
(* tokens so that substring tests of the code ('dtparam' in l,             *)
(* '### name' in line) are computed and not assumed.                       *)
(***************************************************************************)
EXTENDS Integers, Sequences, FiniteSets, TLC

\* ---- bounds of the model ----
MaxTmp == 2          \* temporary file names available in the directory
MaxCalls == 4        \* calls of the module's functions in one behaviour
MaxLines == 2        \* lines of a Target Path drawn for the comment operations

\* ---- program constants ----
IDLE == 0
LOCKED == 1
WRITABLE == 2
NoPath == 0          \* temp_path = None
None == 0            \* _transaction = None
SelfPath == 0        \* temp_config.path = self.path

Procs == {"p1", "p2"}
NoProc == "none"
TmpNames == 1..MaxTmp

VARIABLES
    target,     \* the file at self.path
    tmp,        \* the config_tmp_* files of self.dir, by name
    state,      \* self.state of each process's ConfigTransaction
    lock,       \* self.lock is an open_locked handle (TRUE) or None (FALSE)
    temp_path,  \* self.temp_path: a name of tmp, or NoPath
    cfgpath,    \* self.temp_config.path: SelfPath or a name of tmp
    dry_run,    \* the module global dry_run of each process
    pc,         \* where each process is: ready / acquire / write
    call,       \* the operation a process is inside of
    buf,        \* lines still to be written by the open file write
    flock,      \* holder of the flock on the Target Path's own file
    last,       \* the last step: who, which operation, its outcome
    pre,        \* history: Target Path when the process left IDLE
    ext,        \* history: another process changed the Target Path since
    txn,        \* history: seed of the Staged Copy with the writes applied
    cum,        \* history: the same over all dry-run cycles
    calls,      \* calls so far
    _transaction,   \* the module's _transaction: None or the n-th object made
    self_path,  \* self.path: the Target Path of each ConfigTransaction
    owner       \* history: the process that made each temporary file

vars == <<target, tmp, state, lock, temp_path, cfgpath, dry_run, pc, call,
          buf, flock, last, pre, ext, txn, cum, calls, _transaction, self_path,
          owner>>

\* ---- paths: the sequence of a path's components ----
boot_config_standard_path == <<"boot", "config.txt">>
lock_dir == <<"run", "lock">>
Paths == { boot_config_standard_path,
           <<"boot", "config_rpi3_backup.txt">>,
           <<"tmp", "config.txt">> }

\* os.path.basename, os.path.join
basename(pth) == pth[Len(pth)]
join(dir, name) == Append(dir, name)

\* a lock path made from the directory of the Target Path
lockpath_by_dir(p) ==
    join(lock_dir, <<"kano_config_", self_path[p][1], ".lock">>)

\* self.lockpath of the ConfigTransaction of p:
\* os.path.join(lock_dir, 'kano_config_' + self.base + '.lock')
lockpath(p) == join(lock_dir, <<"kano_config_", basename(self_path[p]), ".lock">>)

\* ---- files and lines ----
Absent == [ex |-> FALSE, lines |-> <<>>, nl |-> TRUE]
Text(ls) == [ex |-> TRUE, lines |-> ls, nl |-> TRUE]
Empty == Text(<<>>)

noobs_line == <<"# NOOBS Auto-generated Settings:">>
DtLine == <<"dtparam", "=", "audio">>
XLine == <<"x">>
default_config == Text(<<DtLine, <<"k", "=", "0">>>>)
other_config == Text(<<DtLine, XLine>>)

\* contents the Target Path may have when the processes start
TargetInits ==
    { Absent,
      Empty,
      Text(<<DtLine>>),
      [ex |-> TRUE, lines |-> <<XLine>>, nl |-> FALSE],
      Text(<<DtLine, noobs_line, XLine>>) }

\* inputs of the operations
ValueNames == {"k"}
Values == {"1"}
CommentNames == {<<"a">>}
CommentValues == {"1"}
Sources == {"default", "other", "missing"}

SourceFile(src) ==
    IF src = "default" THEN default_config
    ELSE IF src = "other" THEN other_config
    ELSE Absent

\* python: sub in line
Contains(sub, line) ==
    \E i \in 1..(Len(line) - Len(sub) + 1) :
        SubSeq(line, i, i + Len(sub) - 1) = sub

\* python: line.startswith(pre)
StartsWith(prefix, line) ==
    /\ Len(prefix) <= Len(line)
    /\ SubSeq(line, 1, Len(prefix)) = prefix

\* the lines of a file; a missing file reads as no lines
read_file_contents_as_lines(f) == IF f.ex THEN f.lines ELSE <<>>

FileAt(path) == IF path = SelfPath THEN target ELSE tmp[path]

\* ---- BootConfigParser (kano_settings.system.boot_config) ----
IsKey(line, name) == Len(line) >= 3 /\ line[1] = name /\ line[2] = "="
IsOffKey(line, name) == Len(line) >= 4 /\ line[1] = "#" /\ IsKey(Tail(line), name)

\* config.set(name, value) followed by config.dump(): a value of None
\* comments the key's line out, any other value rewrites or appends it
BootConfigParser_set(lines, name, value) ==
    LET has == \E i \in 1..Len(lines) :
                   IsKey(lines[i], name) \/ IsOffKey(lines[i], name)
        new == <<name, "=", value>>
    IN  IF value = "None"
        THEN [i \in 1..Len(lines) |->
                 IF IsKey(lines[i], name) THEN <<"#">> \o lines[i] ELSE lines[i]]
        ELSE IF has
        THEN [i \in 1..Len(lines) |->
                 IF IsKey(lines[i], name) \/ IsOffKey(lines[i], name)
                 THEN new ELSE lines[i]]
        ELSE Append(lines, new)

\* config.get(name): the value of the first active line of the key
BootConfigParser_get(lines, name) ==
    LET hits == {i \in 1..Len(lines) : IsKey(lines[i], name)}
    IN  IF hits = {} THEN "fallback"
        ELSE lines[CHOOSE i \in hits : \A j \in hits : i <= j][3]

\* ---- BootConfig: what each accessor method computes ----
\* '### {}: {}'.format(name, value), '### {}'.format(name), '### {}:'.format(name)
comment_str_full(name, value) == <<"###", " ">> \o name \o <<":", " ", value>>
comment_str_name(name) == <<"###", " ">> \o name
comment_start(name) == <<"###", " ">> \o name \o <<":">>

InSeq(x, s) == \E i \in 1..Len(s) : s[i] = x

_noobs_defaults_present(f) == InSeq(noobs_line, read_file_contents_as_lines(f))

\* the lines _remove_noobs_defaults writes: those before the first sentinel
RECURSIVE BeforeNoobs(_)
BeforeNoobs(lines) ==
    IF lines = <<>> \/ Head(lines) = noobs_line THEN <<>>
    ELSE <<Head(lines)>> \o BeforeNoobs(Tail(lines))

\* _remove_noobs_defaults with 'continue' in place of 'break': the sentinel
\* alone is dropped
_remove_noobs_defaults_continue(f) ==
    LET keep(line) == line # noobs_line
    IN  SelectSeq(read_file_contents_as_lines(f), keep)

_remove_noobs_defaults(f) == BeforeNoobs(read_file_contents_as_lines(f))

must_contain == {<<"dtparam">>}

check_corrupt(f) ==
    IF ~f.ex THEN TRUE
    ELSE LET lines == read_file_contents_as_lines(f)
             found == {m \in must_contain :
                          \E i \in 1..Len(lines) : Contains(m, lines[i])}
         IN  must_contain # found

\* the lines set_value writes (it returns without writing when there are none)
set_value(f, name, value) ==
    BootConfigParser_set(read_file_contents_as_lines(f), name, value)

\* get_value without its 'if not lines: return 0'
get_value_unguarded(f, name) ==
    BootConfigParser_get(read_file_contents_as_lines(f), name)

get_value(f, name) ==
    LET lines == read_file_contents_as_lines(f)
    IN  IF lines = <<>> THEN "0" ELSE BootConfigParser_get(lines, name)

\* the lines set_comment writes
set_comment(f, name, value) ==
    LET lines == read_file_contents_as_lines(f)
        keep(line) == ~Contains(comment_str_name(name), line)
    IN  <<comment_str_full(name, value)>> \o SelectSeq(lines, keep)

get_comment(f, name, value) ==
    LET lines == read_file_contents_as_lines(f)
    IN  IF lines = <<>> THEN FALSE ELSE InSeq(comment_str_full(name, value), lines)

has_comment(f, name) ==
    LET lines == read_file_contents_as_lines(f)
    IN  \E i \in 1..Len(lines) : StartsWith(comment_start(name), lines[i])

Bool(b) == IF b THEN "true" ELSE "false"

\* ---- calls and outcomes ----
NoCall == [op |-> "none", name |-> <<>>, key |-> "", value |-> "", src |-> "",
           res |-> ""]
Op(op) == [NoCall EXCEPT !.op = op]

Result(p, op, res) == [p |-> p, op |-> op, res |-> res, data |-> Absent]

\* the operation of p returns (or raises) res
Return(p, op, res, data) ==
    /\ pc' = [pc EXCEPT ![p] = "ready"]
    /\ call' = [call EXCEPT ![p] = NoCall]
    /\ buf' = [buf EXCEPT ![p] = <<>>]
    /\ last' = [p |-> p, op |-> op, res |-> res, data |-> data]

\* history: the Target Path at the start of p's transaction, and whether a
\* step of another process has changed it since
Track(p, begin) ==
    LET idle == state'[p] = IDLE
        mine == IF idle \/ begin THEN FALSE ELSE ext[p]
    IN  /\ pre' = [pre EXCEPT ![p] = IF idle THEN Absent
                                      ELSE IF begin THEN target ELSE @]
        /\ IF target' # target
           THEN ext' = [q \in Procs |-> IF q = p THEN mine ELSE state[q] # IDLE]
           ELSE ext' = [ext EXCEPT ![p] = mine]
        /\ IF temp_path'[p] = temp_path[p]
           THEN owner' = owner
           ELSE IF temp_path[p] = NoPath
           THEN owner' = [owner EXCEPT ![temp_path'[p]] = p]
           ELSE IF tmp'[temp_path[p]].ex
           THEN owner' = owner
           ELSE owner' = [owner EXCEPT ![temp_path[p]] = NoProc]

Init ==
    /\ target \in TargetInits
    /\ tmp = [n \in TmpNames |-> Absent]
    /\ state = [p \in Procs |-> IDLE]
    /\ lock = [p \in Procs |-> FALSE]
    /\ temp_path = [p \in Procs |-> NoPath]
    /\ cfgpath = [p \in Procs |-> SelfPath]
    /\ dry_run = [p \in Procs |-> FALSE]
    /\ pc = [p \in Procs |-> "ready"]
    /\ call = [p \in Procs |-> NoCall]
    /\ buf = [p \in Procs |-> <<>>]
    /\ flock = NoProc
    /\ last = Result(NoProc, "init", "ok")
    /\ pre = [p \in Procs |-> Absent]
    /\ ext = [p \in Procs |-> FALSE]
    /\ txn = [p \in Procs |-> Absent]
    /\ cum = [p \in Procs |-> Absent]
    /\ calls = 0
    /\ _transaction = [p \in Procs |-> None]
    /\ owner = [n \in TmpNames |-> NoProc]
    /\ self_path = [p \in Procs |-> boot_config_standard_path]

\* ---- ConfigTransaction: state changes ----
\* set_state_idle: WRITABLE drops to LOCKED, LOCKED closes the lock handle;
\* self.lock.close() raises AttributeError when self.lock is None
set_state_idle_fails(p) == state[p] >= LOCKED /\ ~lock[p]

set_state_idle(p) ==
    /\ cfgpath' = [cfgpath EXCEPT
                     ![p] = IF state[p] = WRITABLE THEN SelfPath ELSE @]
    /\ temp_path' = [temp_path EXCEPT
                       ![p] = IF state[p] = WRITABLE THEN NoPath ELSE @]
    /\ state' = [state EXCEPT
                   ![p] = IF set_state_idle_fails(p) THEN LOCKED ELSE IDLE]
    /\ lock' = [lock EXCEPT ![p] = FALSE]

\* valid_state(): the validity condition of each state
valid_state(p) ==
    CASE state[p] = IDLE ->
             ~lock[p] /\ cfgpath[p] = SelfPath /\ temp_path[p] = NoPath
      [] state[p] = LOCKED ->
             lock[p] /\ cfgpath[p] = SelfPath /\ temp_path[p] = NoPath
      [] state[p] = WRITABLE ->
             lock[p] /\ cfgpath[p] = temp_path[p] /\ temp_path[p] # NoPath

\* tempfile.NamedTemporaryFile: a name no file of the directory has
FreeNames == {n \in TmpNames : ~tmp[n].ex}
NamedTemporaryFile == CHOOSE n \in FreeNames : \A m \in FreeNames : n <= m

\* what shutil.copy2 seeds the new temporary file with
Seed == IF target.ex THEN target ELSE default_config

\* set_state_writable, with the lock step of raise_state_to_locked done: the
\* staged path, the temporary files and the expected staged content after it
StagedPath(p) ==
    IF state[p] # WRITABLE THEN NamedTemporaryFile ELSE temp_path[p]
\* set_state_writable without its test of the state: every write copies the
\* Target Path over the Staged Copy again
StagedFiles_reseed(p) == [tmp EXCEPT ![StagedPath(p)] = Seed]
StagedFiles(p) ==
    IF state[p] # WRITABLE THEN [tmp EXCEPT ![NamedTemporaryFile] = Seed] ELSE tmp
StagedTxn(p) == IF state[p] # WRITABLE THEN Seed ELSE txn[p]

set_state_writable(p) ==
    /\ state[p] # WRITABLE => FreeNames # {}
    /\ state' = [state EXCEPT ![p] = WRITABLE]
    /\ temp_path' = [temp_path EXCEPT ![p] = StagedPath(p)]
    /\ cfgpath' = [cfgpath EXCEPT
                     ![p] = IF state[p] # WRITABLE THEN StagedPath(p) ELSE @]

\* history: the content the Staged Copy is to have after a write, given the
\* write applied to the expected staged content and to that of all cycles
Wrote(p, staged, all) ==
    /\ txn' = [txn EXCEPT ![p] = staged]
    /\ cum' = [cum EXCEPT
                 ![p] = IF ~dry_run[p] THEN @ ELSE IF @.ex THEN all ELSE staged]

\* open_locked(path, 'w') of a BootConfig write, then the lines, then flush
\* and fsync.  On the Target Path the file is truncated (and created) at
\* once and its lines are written one at a time afterwards, each a step.
\* A temporary file is known to its transaction alone and no step reads it
\* before the write is over, so its write is a single step.
OpenWrite(p, c, path, files, lines, res) ==
    IF path = SelfPath
    THEN /\ target' = Empty
         /\ tmp' = files
         /\ flock' = IF flock = NoProc THEN p ELSE flock
         /\ buf' = [buf EXCEPT ![p] = lines]
         /\ pc' = [pc EXCEPT ![p] = "write"]
         /\ call' = [call EXCEPT ![p] = [c EXCEPT !.res = res]]
         /\ last' = Result(p, c.op, "writing")
    ELSE /\ tmp' = [files EXCEPT ![path] = Text(lines)]
         /\ UNCHANGED <<target, flock>>
         /\ Return(p, c.op, res, Absent)

\* ---- ConfigTransaction: the operations, past the lock step ----
Unwritten == UNCHANGED <<target, tmp, flock>>
\* raise_state_to_locked() without its test of the state
Locked_unguarded(p) == state' = [state EXCEPT ![p] = LOCKED]
\* the operation needs LOCKED only: raise_state_to_locked() and no more
Locked(p) == state' = [state EXCEPT ![p] = IF @ = IDLE THEN LOCKED ELSE @]
Unstaged(p) == Locked(p) /\ UNCHANGED <<temp_path, cfgpath, txn, cum>>

ConfigTransaction_set_config_value(p, c) ==
    LET path == StagedPath(p)
        files == StagedFiles(p)
        f == files[path]
        after(g) == IF read_file_contents_as_lines(g) = <<>> THEN g
                    ELSE Text(set_value(g, c.key, c.value))
    IN  /\ set_state_writable(p)
        /\ IF read_file_contents_as_lines(f) = <<>>
           THEN /\ target' = target /\ tmp' = files /\ flock' = flock
                /\ Return(p, c.op, "ok", Absent)
           ELSE OpenWrite(p, c, path, files, set_value(f, c.key, c.value), "ok")
        /\ Wrote(p, after(StagedTxn(p)), after(cum[p]))

ConfigTransaction_get_config_value(p, c) ==
    /\ Return(p, c.op, get_value(FileAt(cfgpath[p]), c.key), Absent)
    /\ Unwritten /\ Unstaged(p)

ConfigTransaction_set_config_comment(p, c) ==
    LET path == StagedPath(p)
        files == StagedFiles(p)
        f == files[path]
        after(g) == IF read_file_contents_as_lines(g) = <<>> THEN g
                    ELSE Text(set_comment(g, c.name, c.value))
    IN  /\ set_state_writable(p)
        /\ IF read_file_contents_as_lines(f) = <<>>
           THEN /\ target' = target /\ tmp' = files /\ flock' = flock
                /\ Return(p, c.op, "ok", Absent)
           ELSE OpenWrite(p, c, path, files, set_comment(f, c.name, c.value), "ok")
        /\ Wrote(p, after(StagedTxn(p)), after(cum[p]))

ConfigTransaction_get_config_comment(p, c) ==
    /\ Return(p, c.op, Bool(get_comment(FileAt(cfgpath[p]), c.name, c.value)),
              Absent)
    /\ Unwritten /\ Unstaged(p)

ConfigTransaction_has_config_comment(p, c) ==
    /\ Return(p, c.op, Bool(has_comment(FileAt(cfgpath[p]), c.name)), Absent)
    /\ Unwritten /\ Unstaged(p)

\* remove_noobs_defaults() with set_state_writable() outside the test
ConfigTransaction_remove_noobs_defaults_staging(p, c) ==
    LET present == _noobs_defaults_present(FileAt(cfgpath[p]))
        path == StagedPath(p)
        files == StagedFiles(p)
        cut(g) == Text(_remove_noobs_defaults(g))
    IN  /\ set_state_writable(p)
        /\ OpenWrite(p, c, path, files, _remove_noobs_defaults(files[path]),
                     Bool(present))
        /\ Wrote(p, cut(StagedTxn(p)), cut(cum[p]))

\* _remove_noobs_defaults() is called whether or not the sentinel is present:
\* without it the accessor still points where it did (the Target Path in
\* LOCKED) and that file is rewritten in place
ConfigTransaction_remove_noobs_defaults(p, c) ==
    LET present == _noobs_defaults_present(FileAt(cfgpath[p]))
        path == StagedPath(p)
        files == StagedFiles(p)
        cut(g) == Text(_remove_noobs_defaults(g))
    IN  IF present
        THEN /\ set_state_writable(p)
             /\ OpenWrite(p, c, path, files, _remove_noobs_defaults(files[path]),
                          "true")
             /\ Wrote(p, cut(StagedTxn(p)), cut(cum[p]))
        ELSE /\ OpenWrite(p, c, cfgpath[p], tmp,
                          _remove_noobs_defaults(FileAt(cfgpath[p])), "false")
             /\ Locked(p) /\ UNCHANGED <<temp_path, cfgpath>>
             /\ IF state[p] = WRITABLE
                THEN Wrote(p, cut(StagedTxn(p)), cut(cum[p]))
                ELSE UNCHANGED <<txn, cum>>

ConfigTransaction_copy_to(p, c) ==
    LET path == IF temp_path[p] # NoPath THEN temp_path[p] ELSE SelfPath
        f == FileAt(path)
    IN  /\ Return(p, c.op, IF f.ex THEN "ok" ELSE "IOError", f)
        /\ Unwritten /\ Unstaged(p)

\* copy_from(src) of the transaction: shutil.copy2(src, self.temp_path)
CopyFrom(p, c, src, res) ==
    LET path == StagedPath(p)
        files == StagedFiles(p)
        copied(g) == IF src.ex THEN src ELSE g
    IN  /\ set_state_writable(p)
        /\ tmp' = [files EXCEPT ![path] = copied(@)]
        /\ UNCHANGED <<target, flock>>
        /\ Return(p, c.op, IF src.ex THEN res ELSE "IOError", Absent)
        /\ Wrote(p, copied(StagedTxn(p)), copied(cum[p]))

ConfigTransaction_copy_from(p, c) == CopyFrom(p, c, SourceFile(c.src), "ok")

\* check_corrupt_config() that stages on corruption but leaves out
\* copy_from(default_config_path)
ConfigTransaction_check_corrupt_config_no_copy(p, c) ==
    IF check_corrupt(FileAt(cfgpath[p]))
    THEN /\ set_state_writable(p)
         /\ tmp' = StagedFiles(p)
         /\ UNCHANGED <<target, flock>>
         /\ Return(p, c.op, "true", Absent)
         /\ Wrote(p, StagedTxn(p), cum[p])
    ELSE /\ Return(p, c.op, "false", Absent)
         /\ Unwritten /\ Unstaged(p)

ConfigTransaction_check_corrupt_config(p, c) ==
    IF check_corrupt(FileAt(cfgpath[p]))
    THEN CopyFrom(p, c, default_config, "true")
    ELSE /\ Return(p, c.op, "false", Absent)
         /\ Unwritten /\ Unstaged(p)

\* raise_state_to_locked() called on its own: nothing past the lock step
ConfigTransaction_raise_state_to_locked(p, c) ==
    /\ Return(p, c.op, "ok", Absent)
    /\ Unwritten /\ Unstaged(p)

\* the body of an operation past the lock step of raise_state_to_locked
Body(p, c) ==
    CASE c.op = "set_config_value" -> ConfigTransaction_set_config_value(p, c)
      [] c.op = "get_config_value" -> ConfigTransaction_get_config_value(p, c)
      [] c.op = "set_config_comment" -> ConfigTransaction_set_config_comment(p, c)
      [] c.op = "get_config_comment" -> ConfigTransaction_get_config_comment(p, c)
      [] c.op = "has_config_comment" -> ConfigTransaction_has_config_comment(p, c)
      [] c.op = "remove_noobs_defaults" ->
             ConfigTransaction_remove_noobs_defaults(p, c)
      [] c.op = "copy_to" -> ConfigTransaction_copy_to(p, c)
      [] c.op = "copy_from" -> ConfigTransaction_copy_from(p, c)
      [] c.op = "check_corrupt_config" ->
             ConfigTransaction_check_corrupt_config(p, c)
      [] c.op = "raise_state_to_locked" ->
             ConfigTransaction_raise_state_to_locked(p, c)

\* raise_state_to_locked from IDLE: the state is set to LOCKED first, then
\* open_locked(self.lockpath, 'w', timeout=lock_timeout) is entered; it
\* returns at once when no process holds the flock and blocks otherwise
LockFree(p) ==
    \A q \in Procs \ {p} : lock[q] => lockpath(q) # lockpath(p)

raise_state_to_locked(p, c) ==
    /\ state' = [state EXCEPT ![p] = LOCKED]
    /\ pc' = [pc EXCEPT ![p] = "acquire"]
    /\ call' = [call EXCEPT ![p] = c]
    /\ last' = Result(p, c.op, "acquiring")
    /\ UNCHANGED <<target, tmp, flock, lock, temp_path, cfgpath, buf, txn, cum>>

\* p is between operations and makes a call
Counted(p) ==
    /\ pc[p] = "ready"
    /\ calls < MaxCalls
    /\ calls' = calls + 1
    /\ UNCHANGED self_path

\* _trans() that makes a new ConfigTransaction at every call
_trans_new(p) == _transaction' = [_transaction EXCEPT ![p] = @ + 1]

\* _trans(): the ConfigTransaction of the live boot configuration, made at
\* the first call
_trans(p) ==
    _transaction' = [_transaction EXCEPT ![p] = IF @ = None THEN 1 ELSE @]

\* p calls one of the module's functions, each of which begins with _trans()
Called(p) == Counted(p) /\ _trans(p)

\* a call of an operation that raises the state
Invoke(p, c) ==
    /\ IF state[p] = IDLE /\ ~LockFree(p)
       THEN raise_state_to_locked(p, c)
       ELSE /\ lock' = [lock EXCEPT ![p] = @ \/ state[p] = IDLE]
            /\ Body(p, c)
    /\ UNCHANGED dry_run
    /\ Track(p, state[p] = IDLE)

\* ---- the module-level functions, one action each ----
set_config_value(p) ==
    /\ Called(p)
    /\ \E k \in ValueNames, v \in Values :
           Invoke(p, [Op("set_config_value") EXCEPT !.key = k, !.value = v])

get_config_value(p) ==
    /\ Called(p)
    /\ \E k \in ValueNames :
           Invoke(p, [Op("get_config_value") EXCEPT !.key = k])

set_config_comment(p) ==
    /\ Called(p)
    /\ \E n \in CommentNames, v \in CommentValues :
           Invoke(p, [Op("set_config_comment") EXCEPT !.name = n, !.value = v])

get_config_comment(p) ==
    /\ Called(p)
    /\ \E n \in CommentNames, v \in CommentValues :
           Invoke(p, [Op("get_config_comment") EXCEPT !.name = n, !.value = v])

has_config_comment(p) ==
    /\ Called(p)
    /\ \E n \in CommentNames :
           Invoke(p, [Op("has_config_comment") EXCEPT !.name = n])

remove_noobs_defaults(p) ==
    /\ Called(p)
    /\ Invoke(p, Op("remove_noobs_defaults"))

config_copy_to(p) ==
    /\ Called(p)
    /\ Invoke(p, Op("copy_to"))

config_copy_from(p) ==
    /\ Called(p)
    /\ \E s \in Sources : Invoke(p, [Op("copy_from") EXCEPT !.src = s])

check_corrupt_config(p) ==
    /\ Called(p)
    /\ Invoke(p, Op("check_corrupt_config"))

\* ---- open_locked on the lock path ----
\* the flock is granted: no other process holds a handle on the lock path
open_locked_returns(p) ==
    /\ pc[p] = "acquire"
    /\ LockFree(p)
    /\ lock' = [lock EXCEPT ![p] = TRUE]
    /\ Body(p, call[p])
    /\ UNCHANGED <<dry_run, calls, _transaction, self_path>>
    /\ Track(p, TRUE)

\* another process held the flock for the whole of lock_timeout: the
\* exception leaves raise_state_to_locked with state = 1 and lock = None
open_locked_timeout(p) ==
    /\ pc[p] = "acquire"
    /\ \E q \in Procs \ {p} : lock[q] /\ lockpath(q) = lockpath(p)
    /\ Return(p, call[p].op, "LockTimeout", Absent)
    /\ UNCHANGED <<target, tmp, flock, state, lock, temp_path, cfgpath,
                   dry_run, txn, cum, calls, _transaction, self_path>>
    /\ Track(p, FALSE)

\* ---- a BootConfig write to the Target Path in progress ----
\* the flock of open_locked on the file itself: one writer at a time
MayWrite(p) == flock \in {p, NoProc}

\* boot_config_file.write(line + "\n")
write_line(p) ==
    /\ pc[p] = "write" /\ buf[p] # <<>>
    /\ MayWrite(p)
    /\ target' = [ex |-> TRUE, lines |-> Append(target.lines, Head(buf[p])),
                  nl |-> TRUE]
    /\ flock' = p
    /\ buf' = [buf EXCEPT ![p] = Tail(@)]
    /\ last' = Result(p, call[p].op, "writing")
    /\ UNCHANGED <<tmp, state, lock, temp_path, cfgpath, dry_run, pc, call,
                   txn, cum, calls, _transaction, self_path>>
    /\ Track(p, FALSE)

\* flush, fsync and the end of the with block; the operation returns
write_done(p) ==
    /\ pc[p] = "write" /\ buf[p] = <<>>
    /\ MayWrite(p)
    /\ flock' = NoProc
    /\ Return(p, call[p].op, call[p].res, Absent)
    /\ UNCHANGED <<target, tmp, state, lock, temp_path, cfgpath, dry_run,
                   txn, cum, calls, _transaction, self_path>>
    /\ Track(p, FALSE)

\* ---- ending a transaction ----
\* close() without the shutil.move: the Staged Copy is never committed
ConfigTransaction_close_no_move(p, op, raised) ==
    /\ UNCHANGED <<target, tmp>>
    /\ set_state_idle(p)
    /\ Return(p, op, IF set_state_idle_fails(p) THEN "AttributeError"
                     ELSE raised, Absent)
    /\ txn' = [txn EXCEPT ![p] = Absent]
    /\ UNCHANGED <<flock, cum>>

\* close(): in WRITABLE and not dry run, shutil.move(temp_path, path);
\* then set_state_idle()
ConfigTransaction_close(p, op, raised) ==
    LET rename == state[p] = WRITABLE /\ ~dry_run[p]
    IN  /\ target' = IF rename THEN tmp[temp_path[p]] ELSE target
        /\ tmp' = IF rename THEN [tmp EXCEPT ![temp_path[p]] = Absent] ELSE tmp
        /\ set_state_idle(p)
        /\ Return(p, op, IF set_state_idle_fails(p) THEN "AttributeError"
                         ELSE raised, Absent)
        /\ txn' = [txn EXCEPT ![p] = Absent]
        /\ UNCHANGED <<flock, cum>>

end_config_transaction(p) ==
    /\ Called(p)
    /\ ConfigTransaction_close(p, "close", "ok")
    /\ UNCHANGED dry_run
    /\ Track(p, FALSE)

\* abort() that skips os.remove when nothing is staged and goes on to
\* set_state_idle()
ConfigTransaction_abort_guarded(p) ==
    /\ tmp' = IF temp_path[p] = NoPath THEN tmp
              ELSE [tmp EXCEPT ![temp_path[p]] = Absent]
    /\ set_state_idle(p)
    /\ Return(p, "abort", IF set_state_idle_fails(p) THEN "AttributeError"
                          ELSE "ok", Absent)
    /\ txn' = [txn EXCEPT ![p] = Absent]
    /\ cum' = [cum EXCEPT ![p] = Absent]
    /\ UNCHANGED <<target, flock>>

\* abort() without os.remove(self.temp_path)
ConfigTransaction_abort_no_remove(p) ==
    /\ set_state_idle(p)
    /\ Return(p, "abort", IF set_state_idle_fails(p) THEN "AttributeError"
                          ELSE "ok", Absent)
    /\ txn' = [txn EXCEPT ![p] = Absent]
    /\ cum' = [cum EXCEPT ![p] = Absent]
    /\ UNCHANGED <<target, tmp, flock>>

\* abort(): os.remove(self.temp_path), then set_state_idle();
\* os.remove(None) raises TypeError
ConfigTransaction_abort(p) ==
    IF temp_path[p] = NoPath
    THEN /\ Return(p, "abort", "TypeError", Absent)
         /\ UNCHANGED <<target, tmp, flock, state, lock, temp_path, cfgpath,
                        txn, cum>>
    ELSE /\ tmp' = [tmp EXCEPT ![temp_path[p]] = Absent]
         /\ set_state_idle(p)
         /\ Return(p, "abort", IF set_state_idle_fails(p) THEN "AttributeError"
                               ELSE "ok", Absent)
         /\ txn' = [txn EXCEPT ![p] = Absent]
         /\ cum' = [cum EXCEPT ![p] = Absent]
         /\ UNCHANGED <<target, flock>>

end_config_transaction_no_writeback(p) ==
    /\ Called(p)
    /\ ConfigTransaction_abort(p)
    /\ UNCHANGED dry_run
    /\ Track(p, FALSE)

\* the exit hook: a transaction left in WRITABLE is closed, then
\* OpenTransactionError is raised
_clean_up_exit(p) ==
    /\ Called(p)
    /\ IF state[p] > LOCKED
       THEN ConfigTransaction_close(p, "_clean_up_exit", "OpenTransactionError")
       ELSE /\ Return(p, "_clean_up_exit", "ok", Absent)
            /\ UNCHANGED <<target, tmp, flock, state, lock, temp_path, cfgpath,
                           txn, cum>>
    /\ UNCHANGED dry_run
    /\ Track(p, FALSE)

set_dry_run(p) ==
    /\ Counted(p)
    /\ UNCHANGED _transaction
    /\ dry_run' = [dry_run EXCEPT ![p] = TRUE]
    /\ Return(p, "set_dry_run", "ok", Absent)
    /\ UNCHANGED <<target, tmp, flock, state, lock, temp_path, cfgpath,
                   txn, cum>>
    /\ Track(p, FALSE)

Next ==
    \E p \in Procs :
        \/ set_config_value(p)
        \/ get_config_value(p)
        \/ set_config_comment(p)
        \/ get_config_comment(p)
        \/ has_config_comment(p)
        \/ remove_noobs_defaults(p)
        \/ config_copy_to(p)
        \/ config_copy_from(p)
        \/ check_corrupt_config(p)
        \/ open_locked_returns(p)
        \/ open_locked_timeout(p)
        \/ write_line(p)
        \/ write_done(p)
        \/ end_config_transaction(p)
        \/ end_config_transaction_no_writeback(p)
        \/ _clean_up_exit(p)
        \/ set_dry_run(p)

Spec == Init /\ [][Next]_vars

\* both processes have called set_dry_run() before their first operation
InitDry ==
    /\ target \in TargetInits
    /\ tmp = [n \in TmpNames |-> Absent]
    /\ state = [p \in Procs |-> IDLE]
    /\ lock = [p \in Procs |-> FALSE]
    /\ temp_path = [p \in Procs |-> NoPath]
    /\ cfgpath = [p \in Procs |-> SelfPath]
    /\ dry_run = [p \in Procs |-> TRUE]
    /\ pc = [p \in Procs |-> "ready"]
    /\ call = [p \in Procs |-> NoCall]
    /\ buf = [p \in Procs |-> <<>>]
    /\ flock = NoProc
    /\ last = Result(NoProc, "set_dry_run", "ok")
    /\ pre = [p \in Procs |-> Absent]
    /\ ext = [p \in Procs |-> FALSE]
    /\ txn = [p \in Procs |-> Absent]
    /\ cum = [p \in Procs |-> Absent]
    /\ calls = 0
    /\ _transaction = [p \in Procs |-> None]
    /\ owner = [n \in TmpNames |-> NoProc]
    /\ self_path = [p \in Procs |-> boot_config_standard_path]

SpecDry == InitDry /\ [][Next]_vars

\* ---- ConfigTransaction objects on Target Paths of the caller's choice ----
\* each process has made ConfigTransaction(path) on some path and calls its
\* methods raise_state_to_locked() and close(); nothing is written
InitLock ==
    /\ target = Text(<<DtLine>>)
    /\ tmp = [n \in TmpNames |-> Absent]
    /\ state = [p \in Procs |-> IDLE]
    /\ lock = [p \in Procs |-> FALSE]
    /\ temp_path = [p \in Procs |-> NoPath]
    /\ cfgpath = [p \in Procs |-> SelfPath]
    /\ dry_run = [p \in Procs |-> FALSE]
    /\ pc = [p \in Procs |-> "ready"]
    /\ call = [p \in Procs |-> NoCall]
    /\ buf = [p \in Procs |-> <<>>]
    /\ flock = NoProc
    /\ last = Result(NoProc, "init", "ok")
    /\ pre = [p \in Procs |-> Absent]
    /\ ext = [p \in Procs |-> FALSE]
    /\ txn = [p \in Procs |-> Absent]
    /\ cum = [p \in Procs |-> Absent]
    /\ calls = 0
    /\ _transaction = [p \in Procs |-> None]
    /\ owner = [n \in TmpNames |-> NoProc]
    /\ self_path \in [Procs -> Paths]

lock_transaction(p) ==
    /\ Counted(p)
    /\ UNCHANGED _transaction
    /\ Invoke(p, Op("raise_state_to_locked"))

close_transaction(p) ==
    /\ Counted(p)
    /\ ConfigTransaction_close(p, "close", "ok")
    /\ UNCHANGED <<dry_run, _transaction>>
    /\ Track(p, FALSE)

NextLock ==
    \E p \in Procs :
        \/ lock_transaction(p)
        \/ open_locked_returns(p)
        \/ open_locked_timeout(p)
        \/ close_transaction(p)

SpecLock == InitLock /\ [][NextLock]_vars

\* ---- the comment operations on Target Paths of many contents ----
\* annotations of the names a and ab, and a line of the configuration
AnnA == comment_str_full(<<"a">>, "0")
AnnAB == comment_str_full(<<"a", "b">>, "1")
CommentLines == {DtLine, AnnA, AnnAB}

RECURSIVE SeqsUpTo(_)
SeqsUpTo(n) ==
    IF n = 0 THEN {<<>>}
    ELSE LET shorter == SeqsUpTo(n - 1)
         IN  shorter \cup {Append(ls, l) : ls \in shorter, l \in CommentLines}

InitComment ==
    /\ target \in {Text(ls) : ls \in SeqsUpTo(MaxLines)}
    /\ tmp = [n \in TmpNames |-> Absent]
    /\ state = [p \in Procs |-> IDLE]
    /\ lock = [p \in Procs |-> FALSE]
    /\ temp_path = [p \in Procs |-> NoPath]
    /\ cfgpath = [p \in Procs |-> SelfPath]
    /\ dry_run = [p \in Procs |-> FALSE]
    /\ pc = [p \in Procs |-> "ready"]
    /\ call = [p \in Procs |-> NoCall]
    /\ buf = [p \in Procs |-> <<>>]
    /\ flock = NoProc
    /\ last = Result(NoProc, "init", "ok")
    /\ pre = [p \in Procs |-> Absent]
    /\ ext = [p \in Procs |-> FALSE]
    /\ txn = [p \in Procs |-> Absent]
    /\ cum = [p \in Procs |-> Absent]
    /\ calls = 0
    /\ _transaction = [p \in Procs |-> None]
    /\ owner = [n \in TmpNames |-> NoProc]
    /\ self_path = [p \in Procs |-> boot_config_standard_path]

NextComment ==
    \E p \in Procs :
        \/ set_config_comment(p)
        \/ get_config_comment(p)
        \/ has_config_comment(p)
        \/ end_config_transaction(p)
        \/ open_locked_returns(p)
        \/ open_locked_timeout(p)

SpecComment == InitComment /\ [][NextComment]_vars

\* ---- properties ----
\* the step just taken is operation op of process p
Did(p, op) == last'.p = p /\ last'.op = op

\* C1: no reachable state has the ConfigTransaction objects of two processes
\* on the same Target Path both in WRITABLE.
C1_MutualExclusion ==
    \A p \in Procs, q \in Procs :
        p # q => ~(state[p] = WRITABLE /\ state[q] = WRITABLE)

\* C2: the only step that changes the Target Path is the rename of close():
\* every other step, each step of a file write included, leaves the Target
\* Path as it is, and the rename makes it the Staged Copy's content.
C2_Atomicity ==
    [][target' # target =>
         \E p \in Procs :
             /\ Did(p, "close") \/ Did(p, "_clean_up_exit")
             /\ state[p] = WRITABLE
             /\ target' = tmp[temp_path[p]]]_vars

\* C3: with dry run off, close() in WRITABLE leaves the Target Path with the
\* content the Staged Copy had, which is the seed content with every write of
\* the transaction applied in call order, and the Staged Copy is gone from
\* its temporary name.
C3_CommitVisibility ==
    [][\A p \in Procs :
          (Did(p, "close") /\ state[p] = WRITABLE /\ ~dry_run[p]) =>
              /\ target' = tmp[temp_path[p]]
              /\ target' = txn[p]
              /\ ~tmp'[temp_path[p]].ex]_vars

\* a close has just committed a set_config_comment and a set_config_value
C3_Witness ==
    /\ last.op = "close" /\ last.res = "ok"
    /\ target.ex /\ Len(target.lines) >= 2
    /\ target.lines[1] = comment_str_full(<<"a">>, "1")
    /\ InSeq(<<"k", "=", "1">>, target.lines)

\* C4: after a lock acquisition that ended in a timeout the ConfigTransaction
\* is in IDLE with lock = None, temp_path = None, the accessor on the Target
\* Path, and no Staged Copy created.
C4_TimeoutLeavesIdle ==
    last.res = "LockTimeout" =>
        /\ state[last.p] = IDLE
        /\ ~lock[last.p]
        /\ temp_path[last.p] = NoPath
        /\ cfgpath[last.p] = SelfPath

\* C5: close() from any reachable state completes without error and leaves
\* state = IDLE, lock = None and temp_path = None.
C5_CloseReturnsToIdle ==
    last.op = "close" =>
        /\ last.res = "ok"
        /\ state[last.p] = IDLE
        /\ ~lock[last.p]
        /\ temp_path[last.p] = NoPath

\* C6: close() of a transaction that staged nothing (it is LOCKED, holding the
\* lock) leaves the Target Path as it was when the transaction began, absent
\* if it was absent.
C6_ReadOnlyClose ==
    [][\A p \in Procs :
          (Did(p, "close") /\ state[p] = LOCKED /\ lock[p] /\ ~ext[p]) =>
              target' = pre[p]]_vars

\* C7: abort() in WRITABLE deletes the Staged Copy, returns to IDLE with the
\* lock released, and leaves the Target Path with its pre-transaction content.
C7_AbortDiscards ==
    [][\A p \in Procs :
          (Did(p, "abort") /\ state[p] = WRITABLE) =>
              /\ ~tmp'[temp_path[p]].ex
              /\ state'[p] = IDLE
              /\ ~lock'[p]
              /\ ~ext[p] => target' = pre[p]]_vars

\* C8: abort() with nothing staged (temp_path = None, in IDLE or LOCKED) ends
\* in an error and leaves the state, the lock handle, temp_path and the
\* Target Path as they were.
C8_AbortNothingStaged ==
    [][\A p \in Procs :
          (Did(p, "abort") /\ temp_path[p] = NoPath) =>
              /\ last'.res = "TypeError"
              /\ state'[p] = state[p]
              /\ lock'[p] = lock[p]
              /\ temp_path'[p] = NoPath
              /\ cfgpath'[p] = cfgpath[p]
              /\ target' = target
              /\ tmp' = tmp]_vars

\* an abort has just failed on a transaction that holds the lock in LOCKED
C8_Witness ==
    /\ last.op = "abort" /\ last.res = "TypeError"
    /\ state[last.p] = LOCKED /\ lock[last.p]

\* C9: once set, dry_run stays set, and no step of a process whose dry_run is
\* set changes the Target Path's content or existence.
C9_DryRunNeverTouchesTarget ==
    [][\A p \in Procs :
          (dry_run[p] /\ last'.p = p) =>
              /\ dry_run'[p]
              /\ target' = target]_vars

\* C10: with dry run on, the staged file a close() leaves behind has the
\* writes of all the set+commit cycles so far applied, not those of the last
\* cycle alone.
C10_DryRunStagedHasAllWrites ==
    [][\A p \in Procs :
          (Did(p, "close") /\ state[p] = WRITABLE /\ dry_run[p]) =>
              /\ tmp'[temp_path[p]] = cum[p]]_vars

\* C11: with dry run off, _clean_up_exit() on a WRITABLE transaction commits
\* the Staged Copy to the Target Path, ends in IDLE with the lock released
\* and raises OpenTransactionError; on an IDLE or LOCKED transaction it raises
\* nothing and changes neither the Target Path nor the transaction.
C11_ExitHook ==
    [][\A p \in Procs :
          Did(p, "_clean_up_exit") =>
              IF state[p] = WRITABLE
              THEN ~dry_run[p] =>
                       /\ target' = tmp[temp_path[p]]
                       /\ state'[p] = IDLE
                       /\ ~lock'[p]
                       /\ last'.res = "OpenTransactionError"
              ELSE /\ last'.res = "ok"
                   /\ target' = target
                   /\ state'[p] = state[p]
                   /\ lock'[p] = lock[p]
                   /\ temp_path'[p] = temp_path[p]]_vars

\* the file has no line that contains the required marker
NoMarker(f) ==
    ~f.ex \/ \A i \in 1..Len(f.lines) : ~Contains(<<"dtparam">>, f.lines[i])

\* the step is the body of operation op of process p, past the lock step
Ran(p, op) == Did(p, op) /\ last'.res \notin {"acquiring", "LockTimeout"}

\* C12: check_corrupt_config() on an in-flight file that is absent or has no
\* line with 'dtparam' returns true and leaves the transaction WRITABLE with
\* the Staged Copy equal to the packaged default document; no step of another
\* process changes that Staged Copy, and close() with dry run off makes the
\* Target Path equal to it.  With the marker present it returns false and
\* stages nothing.
C12_CorruptionRecovery ==
    [][\A p \in Procs :
          /\ Ran(p, "check_corrupt_config") =>
                IF NoMarker(FileAt(cfgpath[p]))
                THEN /\ last'.res = "true"
                     /\ state'[p] = WRITABLE
                     /\ temp_path'[p] # NoPath
                     /\ tmp'[temp_path'[p]] = default_config
                ELSE /\ last'.res = "false"
                     /\ temp_path'[p] = temp_path[p]
                     /\ tmp' = tmp
                     /\ target' = target
          /\ (state[p] = WRITABLE /\ last'.p # p) =>
                /\ temp_path'[p] = temp_path[p]
                /\ tmp'[temp_path[p]] = tmp[temp_path[p]]
          /\ (Did(p, "close") /\ state[p] = WRITABLE /\ ~dry_run[p]
                /\ tmp[temp_path[p]] = default_config) =>
                target' = default_config]_vars

\* check_corrupt_config() has just replaced the staged content of a Target
\* Path without the marker by the default document
C12_Witness ==
    /\ last.op = "check_corrupt_config" /\ last.res = "true"
    /\ state[last.p] = WRITABLE
    /\ tmp[temp_path[last.p]] = default_config
    /\ target.ex /\ target.lines = <<XLine>>

\* the lines of s before the first occurrence of the sentinel line
Preceding(s) ==
    LET k == CHOOSE i \in 1..Len(s) :
                 s[i] = noobs_line /\ \A j \in 1..(i - 1) : s[j] # noobs_line
    IN  SubSeq(s, 1, k - 1)

\* C13: remove_noobs_defaults() on an in-flight file that contains the
\* sentinel line returns true and leaves the Staged Copy with exactly the
\* lines that preceded the first sentinel, in order; close() with dry run off
\* makes these the lines of the Target Path.
C13_NoobsTruncation ==
    [][\A p \in Procs :
          /\ (Ran(p, "remove_noobs_defaults")
                /\ FileAt(cfgpath[p]).ex
                /\ InSeq(noobs_line, FileAt(cfgpath[p]).lines)) =>
                /\ last'.res = "true"
                /\ state'[p] = WRITABLE
                /\ tmp'[temp_path'[p]].ex
                /\ tmp'[temp_path'[p]].lines =
                       Preceding(FileAt(cfgpath[p]).lines)
                /\ ~InSeq(noobs_line, tmp'[temp_path'[p]].lines)
          /\ (Did(p, "close") /\ state[p] = WRITABLE /\ ~dry_run[p]) =>
                target'.lines = tmp[temp_path[p]].lines]_vars

\* the sentinel and the line after it have just been cut from the Staged Copy
\* of a Target Path that has them
C13_Witness ==
    /\ last.op = "remove_noobs_defaults" /\ last.res = "true"
    /\ state[last.p] = WRITABLE
    /\ tmp[temp_path[last.p]].lines = <<DtLine>>
    /\ target.lines = <<DtLine, noobs_line, XLine>>

\* C16: between any two operations of a ConfigTransaction valid_state()
\* holds, also after an operation that ended in an error.
C16_ValidState ==
    \A p \in Procs : pc[p] = "ready" => valid_state(p)

ReadOps == {"get_config_value", "get_config_comment", "has_config_comment",
            "copy_to"}
WriteOps == {"set_config_value", "set_config_comment", "copy_from"}
EndOps == {"close", "abort", "_clean_up_exit"}

\* C17: the state of a transaction changes in its own steps only; no step
\* but one of close() or abort() (the exit hook's close() included) lowers
\* it; a read operation from IDLE leaves it LOCKED, and a write operation
\* that got past the lock step leaves it WRITABLE.
C17_StateMonotonic ==
    [][\A p \in Procs :
          /\ state'[p] # state[p] => last'.p = p
          /\ state'[p] < state[p] => last'.op \in EndOps
          /\ state'[p] = IDLE /\ state[p] # IDLE => last'.op \in EndOps
          /\ (last'.p = p /\ last'.op \in ReadOps /\ state[p] = IDLE) =>
                state'[p] = LOCKED
          /\ (last'.p = p /\ last'.op \in ReadOps) => state'[p] >= state[p]
          /\ (\E op \in WriteOps : Ran(p, op)) => state'[p] = WRITABLE]_vars

\* a read operation has run in a WRITABLE transaction and a write operation
\* has run in a transaction that began with a read
C17_Witness ==
    \E p \in Procs :
        /\ state[p] = WRITABLE /\ lock[p]
        /\ last.p = p /\ last.op = "get_config_value"

\* the content operation op, ending in res, gives a Staged Copy that held f
Applied(op, res, f, g) ==
    LET lines == read_file_contents_as_lines(f)
    IN  CASE op = "set_config_value" ->
                 \E k \in ValueNames, v \in Values :
                     g = IF lines = <<>> THEN f ELSE Text(set_value(f, k, v))
          [] op = "set_config_comment" ->
                 \E n \in CommentNames, v \in CommentValues :
                     g = IF lines = <<>> THEN f ELSE Text(set_comment(f, n, v))
          [] op = "copy_from" ->
                 IF res = "ok"
                 THEN \E src \in Sources :
                          SourceFile(src).ex /\ g = SourceFile(src)
                 ELSE g = f
          [] op = "check_corrupt_config" ->
                 g = IF res = "true" THEN default_config ELSE f
          [] op = "remove_noobs_defaults" ->
                 g = IF res = "true" THEN Text(Preceding(lines)) ELSE Text(lines)
          [] OTHER -> g = f

\* C18: a Staged Copy is created only by a write operation (or by a
\* remove_noobs_defaults() or check_corrupt_config() that returns true) of a
\* transaction that has none, under a name no file has, and holds that
\* operation applied to the Target Path's content of that moment, or to the
\* packaged default document when the Target Path does not exist; every
\* later operation of the transaction keeps that Staged Copy and applies to
\* the content it has.
C18_StagedOnce ==
    [][\A p \in Procs :
          /\ (temp_path'[p] # temp_path[p] /\ temp_path'[p] # NoPath) =>
                /\ last'.p = p
                /\ \/ last'.op \in WriteOps
                   \/ /\ last'.op \in {"remove_noobs_defaults",
                                        "check_corrupt_config"}
                      /\ last'.res = "true"
                /\ temp_path[p] = NoPath
                /\ ~tmp[temp_path'[p]].ex
                /\ Applied(last'.op, last'.res,
                           IF target.ex THEN target ELSE default_config,
                           tmp'[temp_path'[p]])
          /\ (state[p] = WRITABLE /\ last'.p = p /\ last'.op \notin EndOps) =>
                /\ temp_path'[p] = temp_path[p]
                /\ Applied(last'.op, last'.res, tmp[temp_path[p]],
                           tmp'[temp_path[p]])]_vars

\* the Staged Copy holds a comment and a value set by two operations of one
\* transaction on a Target Path that has neither
C18_Witness ==
    \E p \in Procs :
        /\ state[p] = WRITABLE /\ last.p = p
        /\ target = Text(<<DtLine>>)
        /\ tmp[temp_path[p]] =
               Text(<<comment_str_full(<<"a">>, "1"), DtLine, <<"k", "=", "1">>>>)

\* what read operation op returns from file f
Reads(op, res, data, f) ==
    CASE op = "get_config_value" ->
             \E k \in ValueNames : res = get_value(f, k)
      [] op = "get_config_comment" ->
             \E n \in CommentNames, v \in CommentValues :
                 res = Bool(get_comment(f, n, v))
      [] op = "has_config_comment" ->
             \E n \in CommentNames : res = Bool(has_comment(f, n))
      [] op = "copy_to" -> data = f
      [] op = "check_corrupt_config" -> res = Bool(NoMarker(f))

\* C19: a read operation of a WRITABLE transaction reads the Staged Copy,
\* which holds every write of the transaction so far, and the Target Path
\* still has its content from before the transaction.
C19_ReadYourWrites ==
    [][\A p \in Procs :
          (state[p] = WRITABLE /\ ~ext[p]
             /\ \E op \in ReadOps \cup {"check_corrupt_config"} : Ran(p, op)) =>
              /\ tmp[temp_path[p]] = txn[p]
              /\ Reads(last'.op, last'.res, last'.data, tmp[temp_path[p]])
              /\ target = pre[p]]_vars

\* C20: remove_noobs_defaults() called in IDLE or LOCKED on a Target Path
\* without the sentinel line creates no Staged Copy, leaves the transaction
\* LOCKED and returns false; with the sentinel line it returns true and
\* leaves the transaction WRITABLE.
C20_NoobsEscalation ==
    [][\A p \in Procs :
          /\ (Ran(p, "remove_noobs_defaults") /\ state[p] # WRITABLE
                /\ pc[p] # "write") =>
                IF target.ex /\ InSeq(noobs_line, target.lines)
                THEN /\ last'.res = "true"
                     /\ state'[p] = WRITABLE
                     /\ temp_path'[p] # NoPath
                ELSE /\ state'[p] = LOCKED
                     /\ temp_path'[p] = NoPath
                     /\ tmp' = tmp
                     /\ call'[p].res = "false"
          /\ (Did(p, "remove_noobs_defaults") /\ pc[p] = "write") =>
                /\ state'[p] = LOCKED
                /\ temp_path'[p] = NoPath
                /\ tmp' = tmp
                /\ pc'[p] = "ready" => last'.res = "false"]_vars

\* remove_noobs_defaults() has returned false on a Target Path that has no
\* sentinel line, with nothing staged
C20_Witness ==
    /\ last.op = "remove_noobs_defaults" /\ last.res = "false"
    /\ state[last.p] = LOCKED /\ lock[last.p]
    /\ temp_path[last.p] = NoPath
    /\ \A n \in TmpNames : ~tmp[n].ex
    /\ target = Text(<<DtLine>>)

\* p has been made to wait for its lock, or has timed out waiting for it
Waited(p) == pc[p] = "acquire" \/ (last.p = p /\ last.res = "LockTimeout")

\* C14: two ConfigTransaction objects use the same lock path when their
\* Target Paths are the same and different lock paths when their Target
\* Paths are different, and no transaction waits or times out unless another
\* is on the same Target Path.
C14_LockIdentity ==
    \A p \in Procs :
        /\ \A q \in Procs \ {p} :
               (state[p] # IDLE /\ state[q] # IDLE) =>
                   /\ self_path[p] = self_path[q] => lockpath(p) = lockpath(q)
                   /\ self_path[p] # self_path[q] => lockpath(p) # lockpath(q)
        /\ Waited(p) => \E q \in Procs \ {p} : self_path[q] = self_path[p]

\* C14 as amended: the same lock path when the Target Paths are the same,
\* different lock paths when the basenames of the Target Paths are
\* different, and no transaction waits or times out unless another is on a
\* Target Path of the same basename; two transactions on the same Target
\* Path never hold the lock together.
C14_LockIdentityByBasename ==
    \A p \in Procs :
        /\ \A q \in Procs \ {p} :
               /\ (state[p] # IDLE /\ state[q] # IDLE) =>
                     /\ self_path[p] = self_path[q] => lockpath(p) = lockpath(q)
                     /\ basename(self_path[p]) # basename(self_path[q]) =>
                            lockpath(p) # lockpath(q)
               /\ self_path[p] = self_path[q] => ~(lock[p] /\ lock[q])
        /\ Waited(p) =>
               \E q \in Procs \ {p} :
                   basename(self_path[q]) = basename(self_path[p])

\* transactions on two Target Paths of different basenames hold their locks
\* at the same time
C14_Witness ==
    \E p \in Procs, q \in Procs :
        /\ lock[p] /\ lock[q]
        /\ basename(self_path[p]) # basename(self_path[q])

\* C15: in one process at most one ConfigTransaction is ever made for the
\* live boot configuration path, every call of a module-level function
\* operates on it, and _transaction never changes once set, also after a
\* commit or an abort.
C15_RegistrySingleton ==
    [][\A p \in Procs :
          /\ _transaction'[p] \in {None, 1}
          /\ _transaction[p] # None => _transaction'[p] = _transaction[p]
          /\ (last'.p = p /\ pc[p] = "ready" /\ last'.op # "set_dry_run") =>
                _transaction'[p] = 1]_vars

\* the third call or a later one, an end of a transaction, has run on the
\* one object of its process
C15_Witness ==
    /\ calls >= 3
    /\ last.op \in {"close", "abort"}
    /\ _transaction[last.p] = 1
    /\ state[last.p] = IDLE

\* C21: a process that waits for the lock of the Target Path does not reach
\* LOCKED (or WRITABLE) before the process that holds the lock has released
\* it: while one process holds the lock no other is above IDLE.
C21_LockHandover ==
    \A p \in Procs, q \in Procs :
        (p # q /\ lock[q] /\ lockpath(p) = lockpath(q)) => state[p] = IDLE

\* the content a write operation of p finds in flight: the Staged Copy, or
\* what a new Staged Copy is seeded with
InFlight(p) ==
    IF state[p] = WRITABLE THEN tmp[temp_path[p]]
    ELSE IF target.ex THEN target ELSE default_config

\* the line is an annotation for the name
Annotation(name, line) == StartsWith(<<"###", " ">> \o name \o <<":">>, line)

\* C22: set_config_comment(name, value) on in-flight content with at least
\* one line leaves '### name: value' as the first line, no other line an
\* annotation for name, and every line that is not an annotation for name
\* kept in its order; get_config_comment(name, value) and
\* has_config_comment(name) are then true of the Staged Copy.
C22_CommentAnnotation ==
    [][\A p \in Procs :
          (Ran(p, "set_config_comment") /\ InFlight(p).lines # <<>>) =>
              \E n \in CommentNames, v \in CommentValues :
                  LET old == InFlight(p).lines
                      new == tmp'[temp_path'[p]].lines
                      other(line) == ~Annotation(n, line)
                  IN  /\ new # <<>>
                      /\ new[1] = <<"###", " ">> \o n \o <<":", " ", v>>
                      /\ \A i \in 2..Len(new) : ~Annotation(n, new[i])
                      /\ Tail(new) = SelectSeq(old, other)
                      /\ get_comment(tmp'[temp_path'[p]], n, v)
                      /\ has_comment(tmp'[temp_path'[p]], n)]_vars

\* the file has no lines
NoLines(f) == ~f.ex \/ f.lines = <<>>

\* C23: on an in-flight file with no lines set_config_value and
\* set_config_comment leave the content as it is and the transaction
\* WRITABLE, get_config_value returns 0, get_config_comment and
\* has_config_comment return false, and close() of a transaction whose
\* Staged Copy has no lines leaves the Target Path with empty content.
C23_EmptyContent ==
    [][\A p \in Procs :
          /\ ((Ran(p, "set_config_value") \/ Ran(p, "set_config_comment"))
                /\ NoLines(InFlight(p))) =>
                /\ state'[p] = WRITABLE
                /\ tmp'[temp_path'[p]] = InFlight(p)
                /\ tmp'[temp_path'[p]].ex
                /\ tmp'[temp_path'[p]].lines = <<>>
          /\ (Ran(p, "get_config_value") /\ NoLines(FileAt(cfgpath[p]))) =>
                last'.res = "0"
          /\ ((Ran(p, "get_config_comment") \/ Ran(p, "has_config_comment"))
                /\ NoLines(FileAt(cfgpath[p]))) =>
                last'.res = "false"
          /\ (Did(p, "close") /\ state[p] = WRITABLE /\ ~dry_run[p]
                /\ NoLines(tmp[temp_path[p]])) =>
                /\ target'.ex
                /\ target'.lines = <<>>]_vars

\* a set_config_value has just left the empty Staged Copy of an empty Target
\* Path as it was, in a WRITABLE transaction
C23_Witness ==
    /\ last.op = "set_config_value" /\ last.res = "ok"
    /\ state[last.p] = WRITABLE
    /\ tmp[temp_path[last.p]] = Empty
    /\ target = Empty

\* C24: with dry run off no temporary file made by a transaction exists
\* while that transaction is IDLE, and a temporary file goes away only in a
\* step of the process that made it: renamed onto the Target Path by close()
\* or removed by abort().
C24_NoStagedLeak ==
    [][/\ \A p \in Procs :
              (state'[p] = IDLE /\ ~dry_run'[p]) =>
                  \A n \in TmpNames : ~(tmp'[n].ex /\ owner'[n] = p)
       /\ \A n \in TmpNames :
              (tmp[n].ex /\ ~tmp'[n].ex) =>
                  /\ last'.p = owner[n]
                  /\ \/ last'.op = "abort"
                     \/ /\ last'.op \in {"close", "_clean_up_exit"}
                        /\ target' = tmp[n]]_vars

\* a transaction that staged a value has been committed, every transaction
\* is IDLE again and no temporary file is left
C24_Witness ==
    /\ last.op \in {"close", "abort"} /\ last.res = "ok"
    /\ \A p \in Procs : state[p] = IDLE /\ ~dry_run[p]
    /\ \A n \in TmpNames : ~tmp[n].ex
    /\ InSeq(<<"k", "=", "1">>, target.lines)
    /\ calls >= 4

====
